---------------------------- MODULE Spec2Model ----------------------------
(***************************************************************************)
(* A model of lib/sysfs.c of libsensors: the dynamic feature-table builder *)
(* sensors_read_dynamic_chip and the chip scan sensors_read_sysfs_chips /  *)
(* sensors_read_one_sysfs_chip.                                            *)
(*                                                                         *)
(* Two specifications share the variables:                                 *)
(*   SpecChip  one call of sensors_read_dynamic_chip, one loop iteration   *)
(*             per step, the attributes arriving in any order;             *)
(*   Spec      one scan pass, one device (one call of                      *)
(*             sensors_read_one_sysfs_chip) per step.                      *)
(*                                                                         *)
(* Numbers: TLC's integers are 32 bits wide, while strtol returns a long.  *)
(* The decimal number N of an attribute name is therefore kept as two      *)
(* words, N = hi * 2^32 + lo with lo the signed low word, so that          *)
(* 4294967295 is (hi 1, lo -1) and 4294967297 is (hi 1, lo 1).             *)
(***************************************************************************)
EXTENDS Integers, Sequences, FiniteSets, TLC

VARIABLES
    \* ---- one call of sensors_read_dynamic_chip -------------------------
    longBits,       \* width of long in the build: 32 (ILP32) or 64 (LP64)
    attrs,          \* attributes of the device not yet delivered by the dlist
    order,          \* attributes already processed, in arrival order
    features,       \* the sparse table: slot -> stored feature (occupied slots)
    fnum,           \* the local counter fnum
    prefix,         \* ret.prefix
    dyn,            \* the dense array dyn_features (without its zero terminator)
    pc,             \* "idle" | "start" | "loop" | "done" | "empty" | "fatal" | "crashed"
    \* ---- one scan pass --------------------------------------------------
    variant,        \* "hwmon" (sensors_read_sysfs_chips) | "compat"
    list,           \* sensors_chip_features_list, all slots up to the terminator
    total_dynamic,  \* the static counter of sensors_read_one_sysfs_chip
    proc_chips,     \* the chip registry fed by sensors_add_proc_chips
    seen,           \* devices handed to the loop body so far, in order
    synth,          \* calls of sensors_read_dynamic_chip: <<device position, prefix>>
    ret,            \* the scan's return value
    spc             \* "idle" | "scan" | "returned" | "fatal"

chipVars == <<longBits, attrs, order, features, fnum, prefix, dyn, pc>>
scanVars == <<variant, list, total_dynamic, proc_chips, seen, synth, ret, spc>>
vars == <<longBits, attrs, order, features, fnum, prefix, dyn, pc,
          variant, list, total_dynamic, proc_chips, seen, synth, ret, spc>>

---------------------------------------------------------------------------
(* Bounds of the model *)

\* The largest number of attributes of one device.
MaxAttrs == 3

\* The largest number of devices of one scan pass.
MaxDevices == 4

---------------------------------------------------------------------------
(* Constants of the program *)

MAX_SENSORS_PER_TYPE == 16

\* sensors.h: the feature type codes.  The category is the high byte, the
\* subtype the low byte, bit 0x10 marks a sub feature without compute mapping.
SENSORS_FEATURE_IN == 0
SENSORS_FEATURE_FAN == 256
SENSORS_FEATURE_TEMP == 512
SENSORS_FEATURE_VID == 768
SENSORS_FEATURE_VRM == 769
SENSORS_FEATURE_UNKNOWN == 2147483647
SENSORS_FEATURE_MAX_SUB_FEATURES == 22
SENSORS_NO_MAPPING == -1

\* The subtype codes added to a category's code.
SUB_MIN == 1
SUB_MAX == 2
SUB_ALARM == 16

\* chips.h, error.h
SENSORS_CHIP_NAME_BUS_ISA == -1
SENSORS_CHIP_NAME_BUS_PCI == -5
SENSORS_ERR_PROC == 4
SENSORS_ERR_PARSE == 8

\* chips.h: the number of placeholder entries of sensors_chip_features_list.
\* The model keeps the table small; the code depends on the value only
\* through the comparison total_dynamic < N_PLACEHOLDER_ELEMENTS.
N_PLACEHOLDER_ELEMENTS == 2

\* The legacy ISA bus number of "%d-%x" device names.
ISA_MAGIC_BUS == 9191

\* A NULL char pointer.
NULL == <<"<NULL>">>

\* sizeof(features)/sizeof(sensors_chip_feature)
TableSize ==
    MAX_SENSORS_PER_TYPE * SENSORS_FEATURE_MAX_SUB_FEATURES * 3
        + SENSORS_FEATURE_MAX_SUB_FEATURES

---------------------------------------------------------------------------
(* Strings are sequences of characters *)

\* strndup(value, len - 1): the value without its last character.
ChopNewline(v) == SubSeq(v, 1, Len(v) - 1)

SubclientSuffix == <<" ", "s", "u", "b", "c", "l", "i", "e", "n", "t", "\n">>

HasSuffix(v, suf) ==
    /\ Len(v) >= Len(suf)
    /\ SubSeq(v, Len(v) - Len(suf) + 1, Len(v)) = suf

\* tolower on the characters the model uses.
ToLower(c) ==
    CASE c = "F" -> "f"
      [] c = "O" -> "o"
      [] c = "B" -> "b"
      [] c = "A" -> "a"
      [] c = "R" -> "r"
      [] c = "Z" -> "z"
      [] c = "L" -> "l"
      [] c = "M" -> "m"
      [] OTHER -> c

LowerStr(s) == [k \in 1..Len(s) |-> ToLower(s[k])]

\* !strcasecmp(a, b)
StrCaseEq(a, b) == LowerStr(a) = LowerStr(b)

---------------------------------------------------------------------------
(* Attribute names *)

\* An attribute name <base><N><ext>, N a decimal number.
Num(h, l) == [hi |-> h, lo |-> l]

Attr(b, n, e) == [base |-> b, num |-> n, ext |-> e]

\* The name of the "name" attribute.
NameAttr == Attr("name", Num(0, 0), "")

\* Lines 96-101: the _input extension is removed.
FeatureName(a) == IF a.ext = "_input" THEN [a EXCEPT !.ext = ""] ELSE a

\* sensors_feature_get_type's subtype of an extension, -1 when unknown.
SubtypeOfExt(e) ==
    CASE e = "" -> 0
      [] e = "_min" -> SUB_MIN
      [] e = "_max" -> SUB_MAX
      [] e = "_alarm" -> SUB_ALARM
      [] OTHER -> -1

\* sensors_feature_get_type(&feature.data), on the stripped name.
sensors_feature_get_type(n) ==
    CASE n.base \in {"in", "fan", "temp"} /\ SubtypeOfExt(n.ext) >= 0 ->
             (CASE n.base = "in" -> SENSORS_FEATURE_IN
                [] n.base = "fan" -> SENSORS_FEATURE_FAN
                [] n.base = "temp" -> SENSORS_FEATURE_TEMP) + SubtypeOfExt(n.ext)
      [] n.base = "vid" /\ n.ext = "" -> SENSORS_FEATURE_VID
      [] n.base = "vrm" /\ n.ext = "" -> SENSORS_FEATURE_VRM
      [] OTHER -> SENSORS_FEATURE_UNKNOWN

\* type & 0xFF00, type & 0x00FF, type & 0x10, type >> 8, type & 0xFF10
CatBits(type) == (type \div 256) * 256
SubBits(type) == type % 256
NoComputeBit(type) == ((type \div 16) % 2) * 16
CatOrdinal(type) == type \div 256
CatAndNoComputeBits(type) == CatBits(type) + NoComputeBit(type)

\* LONG_MAX of a build whose long has 32 bits.
LongMax32 == 2147483647

\* strtol(name + k, NULL, 10): the number, clamped to LONG_MAX.
strtol(n, lb) ==
    IF lb = 32 /\ (n.hi > 0 \/ n.lo < 0) THEN Num(0, LongMax32) ELSE n

\* The conversion of strtol's long to the int i: the low word.
LongToInt(n) == n.lo

\* Lines 109-125: N as in this is the N-th in / fan / temp sensor.
DecodeIndex(a, type, lb) ==
    LET v == LongToInt(strtol(a.num, lb))
    IN  CASE CatBits(type) = SENSORS_FEATURE_IN -> v
          [] CatBits(type) = SENSORS_FEATURE_FAN -> IF v # 0 THEN v - 1 ELSE v
          [] CatBits(type) = SENSORS_FEATURE_TEMP -> IF v # 0 THEN v - 1 ELSE v
          [] CatBits(type) = SENSORS_FEATURE_VID -> 0

\* Line 127: the range check of the index.
IndexTooBig(i) == i >= MAX_SENSORS_PER_TYPE

\* Lines 137-139: the place of the feature in the sparse table.
SlotOf(type, i) ==
    CatOrdinal(type) * MAX_SENSORS_PER_TYPE * SENSORS_FEATURE_MAX_SUB_FEATURES
        + i * SENSORS_FEATURE_MAX_SUB_FEATURES + SubBits(type)

\* Lines 40-61.
get_type_scaling_bycategory(type) ==
    CASE CatBits(type) \in {SENSORS_FEATURE_IN, SENSORS_FEATURE_TEMP} -> 3
      [] CatBits(type) = SENSORS_FEATURE_FAN -> 0
      [] type = SENSORS_FEATURE_VID -> 3
      [] type = SENSORS_FEATURE_VRM -> 1
      [] OTHER -> 0

get_type_scaling(type) ==
    CASE CatAndNoComputeBits(type) \in {SENSORS_FEATURE_IN, SENSORS_FEATURE_TEMP} -> 3
      [] CatAndNoComputeBits(type) = SENSORS_FEATURE_FAN -> 0
      [] type = SENSORS_FEATURE_VID -> 3
      [] type = SENSORS_FEATURE_VRM -> 1
      [] OTHER -> 0

\* Lines 159-160: the number of the main feature of slot i's index.
MainNumber(i) == (i - (i % SENSORS_FEATURE_MAX_SUB_FEATURES)) + 1

\* Lines 149-175: the feature stored for attribute a at slot i.
NewFeature(a, type, i) ==
    LET main == CatBits(type) = SENSORS_FEATURE_VID \/ SubBits(type) = 0
        nocompute == NoComputeBit(type) # 0
    IN  [name |-> FeatureName(a),
         number |-> i + 1,
         mapping |-> IF main THEN SENSORS_NO_MAPPING ELSE MainNumber(i),
         compute_mapping |->
             IF main \/ nocompute THEN SENSORS_NO_MAPPING ELSE MainNumber(i),
         scaling |-> get_type_scaling(type)]

\* Lines 141-147 and 177: a feature is stored unless its slot is taken.
StoreFeature_overwrite(tbl, i, f) ==
    [s \in DOMAIN tbl \cup {i} |-> IF s = i THEN f ELSE tbl[s]]

StoreFeature(tbl, i, f) ==
    IF i \in DOMAIN tbl
    THEN tbl
    ELSE [s \in DOMAIN tbl \cup {i} |-> IF s = i THEN f ELSE tbl[s]]

\* What one loop iteration does with attribute a (lines 96-139):
\* "unknown", "toobig", or the slot the feature goes to.
Placement(a, lb) ==
    LET type == sensors_feature_get_type(FeatureName(a))
    IN  IF type = SENSORS_FEATURE_UNKNOWN
        THEN [kind |-> "unknown", type |-> type, slot |-> 0]
        ELSE LET i == DecodeIndex(a, type, lb)
             IN  IF IndexTooBig(i)
                 THEN [kind |-> "toobig", type |-> type, slot |-> 0]
                 ELSE [kind |-> "slot", type |-> type, slot |-> SlotOf(type, i)]

InTable(s) == s \in 0..(TableSize - 1)

\* The empty sparse table (memset, line 85).
EmptyTable == [s \in {} |-> 0]

\* One iteration on a table, for an attribute that is not "name" and whose
\* slot, if any, lies in the table.
InsertAttr(tbl, a, lb) ==
    LET p == Placement(a, lb)
    IN  IF p.kind = "slot" /\ InTable(p.slot)
        THEN StoreFeature(tbl, p.slot, NewFeature(a, p.type, p.slot))
        ELSE tbl

\* Lines 186-192: the occupied slots in ascending order.
RECURSIVE AscendingSlots(_)
AscendingSlots(S) ==
    IF S = {} THEN <<>>
    ELSE LET m == CHOOSE x \in S : \A y \in S : x <= y
         IN  <<m>> \o AscendingSlots(S \ {m})

Compact(tbl) ==
    LET slots == AscendingSlots(DOMAIN tbl)
    IN  [k \in 1..Len(slots) |-> tbl[slots[k]]]

---------------------------------------------------------------------------
(* One call of sensors_read_dynamic_chip *)

\* The attribute names a device directory of the model may hold.
AttrUniverse ==
    { NameAttr,
      Attr("in", Num(0, 0), "_input"), Attr("in", Num(0, 0), "_min"),
      Attr("in", Num(0, 0), "_alarm"), Attr("in", Num(0, 1), "_input"),
      Attr("in", Num(1, 1), "_input"), Attr("in", Num(1, -1), "_input"),
      Attr("fan", Num(0, 0), "_input"), Attr("fan", Num(0, 1), "_input"),
      Attr("fan", Num(0, 15), "_input"), Attr("fan", Num(0, 17), "_input"),
      Attr("temp", Num(0, 1), "_input"), Attr("temp", Num(0, 1), "_max"),
      Attr("temp", Num(1, -1), "_input"),
      Attr("vid", Num(0, 0), ""), Attr("vrm", Num(0, 0), ""),
      Attr("pwm", Num(0, 1), "") }

\* The subsets of S with at most k elements.
RECURSIVE UpTo(_, _)
UpTo(S, k) ==
    IF k = 0 THEN {{}}
    ELSE LET P == UpTo(S, k - 1) IN P \cup {p \cup {x} : p \in P, x \in S}

\* The value of the device's "name" attribute in SpecChip.
ChipNameValue == <<"f", "o", "o", "\n">>

ScanIdle ==
    /\ variant = "hwmon"
    /\ list = <<>>
    /\ total_dynamic = 0
    /\ proc_chips = <<>>
    /\ seen = <<>>
    /\ synth = <<>>
    /\ ret = 0
    /\ spc = "idle"

InitChip ==
    /\ longBits \in {32, 64}
    /\ attrs \in UpTo(AttrUniverse, MaxAttrs)
    /\ order = <<>>
    /\ features = EmptyTable
    /\ fnum = 1
    /\ prefix = NULL
    /\ dyn = <<>>
    /\ pc = "start"
    /\ ScanIdle

\* Lines 80-83: sysfs_get_device_attributes fails, ret = {0, 0} is returned.
AttrsNull ==
    /\ pc = "start"
    /\ pc' = "empty"
    /\ UNCHANGED <<longBits, attrs, order, features, fnum, prefix, dyn>>
    /\ UNCHANGED scanVars

\* Lines 80-85: the attributes are listed, the sparse table is cleared.
AttrsListed ==
    /\ pc = "start"
    /\ features' = EmptyTable
    /\ pc' = "loop"
    /\ UNCHANGED <<longBits, attrs, order, fnum, prefix, dyn>>
    /\ UNCHANGED scanVars

\* Lines 91-94: the iteration on the "name" attribute.
ProcessName ==
    /\ pc = "loop"
    /\ NameAttr \in attrs
    /\ attrs' = attrs \ {NameAttr}
    /\ order' = Append(order, NameAttr)
    /\ prefix' = ChopNewline(ChipNameValue)
    /\ UNCHANGED <<longBits, features, fnum, dyn, pc>>
    /\ UNCHANGED scanVars

\* Lines 96-178: the iteration on another attribute whose slot, if it gets
\* one, lies in the table.
ProcessAttr ==
    /\ pc = "loop"
    /\ \E a \in attrs \ {NameAttr} :
         LET p == Placement(a, longBits)
         IN  /\ p.kind = "slot" => InTable(p.slot)
             /\ attrs' = attrs \ {a}
             /\ order' = Append(order, a)
             /\ features' = InsertAttr(features, a, longBits)
             /\ fnum' = IF features' # features THEN fnum + 1 ELSE fnum
    /\ UNCHANGED <<longBits, prefix, dyn, pc>>
    /\ UNCHANGED scanVars

\* Line 141 with i outside the table: features[i] is read, and possibly
\* written, outside the array.  The read finds a non-null name (the
\* attribute is dropped as a duplicate) or a null one (the feature is
\* written outside the table, where the compaction never looks, and fnum
\* grows), or the access faults.
ProcessAttrOutside ==
    /\ pc = "loop"
    /\ \E a \in attrs \ {NameAttr} :
         LET p == Placement(a, longBits)
         IN  /\ p.kind = "slot" /\ ~InTable(p.slot)
             /\ attrs' = attrs \ {a}
             /\ order' = Append(order, a)
             /\ \/ /\ fnum' \in {fnum, fnum + 1}
                   /\ pc' = pc
                \/ /\ fnum' = fnum
                   /\ pc' = "crashed"
    /\ UNCHANGED <<longBits, features, prefix, dyn>>
    /\ UNCHANGED scanVars

\* Lines 181-196: the dense table is built and returned.
CompactAndReturn ==
    /\ pc = "loop"
    /\ attrs = {}
    /\ dyn' = Compact(features)
    /\ fnum' = Len(dyn')
    /\ pc' = "done"
    /\ UNCHANGED <<longBits, attrs, order, features, prefix>>
    /\ UNCHANGED scanVars

\* Lines 181-184: calloc fails, sensors_fatal_error ends the process.
OutOfMemory ==
    /\ pc = "loop"
    /\ attrs = {}
    /\ pc' = "fatal"
    /\ UNCHANGED <<longBits, attrs, order, features, fnum, prefix, dyn>>
    /\ UNCHANGED scanVars

NextChip ==
    \/ AttrsNull
    \/ AttrsListed
    \/ ProcessName
    \/ ProcessAttr
    \/ ProcessAttrOutside
    \/ CompactAndReturn
    \/ OutOfMemory

SpecChip == InitChip /\ [][NextChip]_vars

---------------------------------------------------------------------------
(* One scan pass: sensors_read_sysfs_chips and its compat variant *)

\* The whole of sensors_read_dynamic_chip on a device whose attributes
\* arrive as the sequence q and whose "name" attribute reads nameValue.
RECURSIVE FoldAttrs(_, _, _)
FoldAttrs(tbl, q, lb) ==
    IF q = <<>> THEN tbl
    ELSE FoldAttrs(IF Head(q) = NameAttr THEN tbl ELSE InsertAttr(tbl, Head(q), lb),
                   Tail(q), lb)

sensors_read_dynamic_chip(dev, lb) ==
    IF ~dev.attrsOk
    THEN [prefix |-> NULL, feature |-> <<>>]
    ELSE [prefix |-> IF \E k \in 1..Len(dev.attrs) : dev.attrs[k] = NameAttr
                     THEN ChopNewline(dev.name)
                     ELSE NULL,
          feature |-> Compact(FoldAttrs(EmptyTable, dev.attrs, lb))]

\* Device names (dev->name), by the sscanf pattern they are written in.
I2cName(b, a) == [kind |-> "i2c", bus |-> b, addr |-> a]
PlatformName(a) == [kind |-> "platform", addr |-> a]
PciName(d, b, sl, f) == [kind |-> "pci", domain |-> d, bus |-> b, slot |-> sl, fn |-> f]
OtherName == [kind |-> "other"]

\* sscanf(dev->name, "%d-%x", ...) == 2, and the two later patterns.
MatchesBusAddr(n) == n.kind = "i2c"
MatchesPlatform(n) == n.kind = "platform"
MatchesPci(n) == n.kind = "pci"

\* Line 260.
PciAddr(n) == n.domain * 65536 + n.bus * 256 + n.slot * 8 + n.fn

\* A device: the value of its "name" attribute (NULL: no such attribute),
\* its directory name, what opening and reading the bus adapter's "name"
\* attribute gives ("noopen", "readfail", "ISA ", "other"), its attributes,
\* and whether sysfs_get_classdev_device finds it.
Dev(nm, dn, ba, ok, at, cd) ==
    [name |-> nm, devname |-> dn, busattr |-> ba, attrsOk |-> ok,
     attrs |-> at, clsdev |-> cd]

Str_lm78 == <<"l", "m", "7", "8">>
Str_foo == <<"f", "o", "o">>
Str_FOO == <<"F", "O", "O">>
Str_bar == <<"b", "a", "r">>
Str_baz == <<"b", "a", "z">>

Attrs1 == <<Attr("in", Num(0, 0), "_min"), NameAttr, Attr("in", Num(0, 0), "_input")>>
Attrs2 == <<NameAttr, Attr("fan", Num(0, 1), "_input")>>

DeviceUniverse ==
    { Dev(Str_lm78 \o <<"\n">>, I2cName(0, 45), "other", TRUE, Attrs2, TRUE),
      Dev(Str_foo \o <<"\n">>, I2cName(ISA_MAGIC_BUS, 656), "noopen", TRUE, Attrs1, TRUE),
      Dev(Str_FOO \o <<"\n">>, PlatformName(656), "noopen", TRUE, Attrs2, TRUE),
      Dev(Str_bar \o <<"\n">>, PciName(0, 0, 31, 3), "noopen", TRUE, Attrs1, TRUE),
      Dev(Str_baz \o <<"\n">>, I2cName(4, 72), "ISA ", TRUE, Attrs2, TRUE),
      Dev(Str_foo \o SubclientSuffix, I2cName(0, 73), "other", TRUE, Attrs2, TRUE),
      Dev(NULL, OtherName, "noopen", TRUE, <<>>, TRUE),
      Dev(Str_bar \o <<"\n">>, I2cName(1, 46), "noopen", TRUE, Attrs1, TRUE),
      Dev(Str_bar \o <<"\n">>, I2cName(1, 46), "readfail", TRUE, Attrs1, TRUE),
      Dev(Str_foo \o <<"\n">>, OtherName, "noopen", TRUE, Attrs1, TRUE),
      Dev(Str_baz \o <<"\n">>, PlatformName(3), "noopen", FALSE, Attrs2, TRUE),
      Dev(Str_lm78 \o <<"\n">>, I2cName(0, 45), "other", TRUE, Attrs2, FALSE) }

\* sensors_chip_features_list as compiled in: the static entries, the
\* placeholders and the terminator, the last two with a null prefix.
NullEntry == [prefix |-> NULL, feature |-> <<>>]

StaticEntries == <<[prefix |-> Str_lm78, feature |-> <<>>]>>

InitialList ==
    StaticEntries \o [k \in 1..(N_PLACEHOLDER_ELEMENTS + 1) |-> NullEntry]

\* Lines 222-223: the test for a subclient.
IsSubclient_never(v) == FALSE

IsSubclient(v) == HasSuffix(v, SubclientSuffix)

\* Line 245: sysfs_read_attribute fails on the opened attribute.
BusAttrReadFails_never(ba) == FALSE

BusAttrReadFails(ba) == ba = "readfail"

\* Line 244: sysfs_open_attribute succeeds.
BusAttrOpens(ba) == ba # "noopen"

\* Lines 235-263: the bus, the address and the error of a device name.
Identify(dev) ==
    LET n == dev.devname
    IN  CASE MatchesBusAddr(n) ->
               IF n.bus = ISA_MAGIC_BUS
               THEN [err |-> 0, bus |-> SENSORS_CHIP_NAME_BUS_ISA, addr |-> n.addr]
               ELSE IF BusAttrOpens(dev.busattr) /\ BusAttrReadFails(dev.busattr)
               THEN [err |-> -SENSORS_ERR_PARSE, bus |-> n.bus, addr |-> n.addr]
               ELSE IF BusAttrOpens(dev.busattr) /\ dev.busattr = "ISA "
               THEN [err |-> 0, bus |-> SENSORS_CHIP_NAME_BUS_ISA, addr |-> n.addr]
               ELSE [err |-> 0, bus |-> n.bus, addr |-> n.addr]
          [] MatchesPlatform(n) ->
               [err |-> 0, bus |-> SENSORS_CHIP_NAME_BUS_ISA, addr |-> n.addr]
          [] MatchesPci(n) ->
               [err |-> 0, bus |-> SENSORS_CHIP_NAME_BUS_PCI, addr |-> PciAddr(n)]
          [] OTHER ->
               [err |-> -SENSORS_ERR_PARSE, bus |-> 0, addr |-> 0]

\* Line 267: the comparison of a table prefix with the device's.
PrefixMatch(a, b) == StrCaseEq(a, b)

\* Lines 266-268: the first entry that has a null prefix or matches p.
\* (Past the terminator the table ends; the loops never get there.)
FindChip(l, p) ==
    IF \E i \in 1..Len(l) : l[i].prefix = NULL \/ PrefixMatch(l[i].prefix, p)
    THEN CHOOSE i \in 1..Len(l) :
             /\ l[i].prefix = NULL \/ PrefixMatch(l[i].prefix, p)
             /\ \A j \in 1..(i - 1) :
                    ~(l[j].prefix = NULL \/ PrefixMatch(l[j].prefix, p))
    ELSE Len(l) + 1

\* Line 276: skip to end of list.
EndOfList(l) ==
    IF \E i \in 1..Len(l) : l[i].prefix = NULL
    THEN CHOOSE i \in 1..Len(l) :
             /\ l[i].prefix = NULL
             /\ \A j \in 1..(i - 1) : l[j].prefix # NULL
    ELSE Len(l) + 1

\* Line 272: the budget test.
BudgetLeft_offbyone(td) == td <= N_PLACEHOLDER_ELEMENTS

BudgetLeft(td) == td < N_PLACEHOLDER_ELEMENTS

\* Lines 271-272: no chip definition matches and the budget allows a new one.
MustSynthesize(l, td, p) ==
    /\ FindChip(l, p) <= Len(l) => l[FindChip(l, p)].prefix = NULL
    /\ BudgetLeft(td)

\* Line 278: sensors_chip_features_list[i] = n_entry.
WriteEntry(l, i, e) ==
    IF i <= Len(l) THEN [l EXCEPT ![i] = e] ELSE Append(l, e)

\* Lines 308-310 and 339-347: the loop goes on while ret is 0.
LoopGoesOn_always(r) == TRUE

LoopGoesOn(r) == r = 0

InitScan ==
    /\ variant \in {"hwmon", "compat"}
    /\ list = InitialList
    /\ total_dynamic = 0
    /\ proc_chips = <<>>
    /\ seen = <<>>
    /\ synth = <<>>
    /\ ret = 0
    /\ spc = "scan"
    /\ longBits = 64
    /\ attrs = {}
    /\ order = <<>>
    /\ features = EmptyTable
    /\ fnum = 1
    /\ prefix = NULL
    /\ dyn = <<>>
    /\ pc = "idle"

\* What one call of sensors_read_one_sysfs_chip (lines 209-286) does to the
\* table, the counter and the registry for the device dev at position k.
ReadOneEffect(dev, k) ==
    IF dev.name = NULL \/ IsSubclient(dev.name)
    THEN /\ ret' = 0
         /\ UNCHANGED <<list, total_dynamic, proc_chips, synth>>
    ELSE LET p == ChopNewline(dev.name)
             id == Identify(dev)
             entry == [prefix |-> p, busname |-> k, bus |-> id.bus, addr |-> id.addr]
         IN  IF id.err # 0
             THEN /\ ret' = id.err
                  /\ UNCHANGED <<list, total_dynamic, proc_chips, synth>>
             ELSE /\ IF MustSynthesize(list, total_dynamic, p)
                     THEN LET n_entry == sensors_read_dynamic_chip(dev, longBits)
                          IN  /\ list' = WriteEntry(list, EndOfList(list), n_entry)
                              /\ total_dynamic' = total_dynamic + 1
                              /\ synth' = Append(synth, [pos |-> k, prefix |-> p])
                     ELSE UNCHANGED <<list, total_dynamic, synth>>
                  /\ proc_chips' = Append(proc_chips, entry)
                  /\ ret' = 0

\* One iteration of the device loop (lines 308-310, 339-347): the next
\* device, sensors_read_one_sysfs_chip on it, and the exit on an error.
ScanStep ==
    /\ spc = "scan"
    /\ Len(seen) < MaxDevices
    /\ \E dev \in DeviceUniverse :
         LET k == Len(seen) + 1
         IN  /\ IF variant = "hwmon" /\ ~dev.clsdev
                THEN /\ ret' = -SENSORS_ERR_PROC
                     /\ seen' = Append(seen, [dev |-> dev, called |-> FALSE, ret |-> ret'])
                     /\ UNCHANGED <<list, total_dynamic, proc_chips, synth>>
                ELSE /\ ReadOneEffect(dev, k)
                     /\ seen' = Append(seen, [dev |-> dev, called |-> TRUE, ret |-> ret'])
             /\ spc' = IF LoopGoesOn(ret') THEN "scan" ELSE "returned"
    /\ UNCHANGED <<variant>>
    /\ UNCHANGED chipVars

\* The device list is exhausted: the pass returns ret.
ScanEnd ==
    /\ spc = "scan"
    /\ spc' = "returned"
    /\ UNCHANGED <<variant, list, total_dynamic, proc_chips, seen, synth, ret>>
    /\ UNCHANGED chipVars

\* Lines 228-233: strndup fails, sensors_fatal_error ends the process.
ScanOutOfMemory ==
    /\ spc = "scan"
    /\ Len(seen) < MaxDevices
    /\ spc' = "fatal"
    /\ UNCHANGED <<variant, list, total_dynamic, proc_chips, seen, synth, ret>>
    /\ UNCHANGED chipVars

Init == InitScan

Next ==
    \/ ScanStep
    \/ ScanEnd
    \/ ScanOutOfMemory

Spec == Init /\ [][Next]_vars

---------------------------------------------------------------------------
(* Properties of sensors_read_dynamic_chip, checked under SpecChip *)

\* The attribute processed k-th, its type and the slot the code gives it.
TypeOfName(n) == sensors_feature_get_type(n)

Range(q) == {q[k] : k \in 1..Len(q)}

\* The attributes processed so far that the code gave a slot of the table.
Placed == {a \in Range(order) \ {NameAttr} :
              /\ Placement(a, longBits).kind = "slot"
              /\ InTable(Placement(a, longBits).slot)}

\* The (category, index, subtype) the code decodes a typed attribute to.
Triple(a) ==
    LET type == TypeOfName(FeatureName(a))
    IN  <<CatBits(type), DecodeIndex(a, type, longBits), SubBits(type)>>

Typed == {a \in Range(order) \ {NameAttr} :
              TypeOfName(FeatureName(a)) # SENSORS_FEATURE_UNKNOWN}

\* The index the digits of a name stand for: N for in, N - 1 (0 stays 0)
\* for fan and temp, 0 for vid and vrm.  InRange: it lies in 0..15.
NameIndexInRange(n) ==
    CASE n.base = "in" -> n.num.hi = 0 /\ n.num.lo \in 0..15
      [] n.base \in {"fan", "temp"} -> n.num.hi = 0 /\ n.num.lo \in 0..16
      [] OTHER -> TRUE

NameIndex(n) ==
    CASE n.base = "in" -> n.num.lo
      [] n.base \in {"fan", "temp"} -> IF n.num.lo # 0 THEN n.num.lo - 1 ELSE 0
      [] OTHER -> 0

\* The features of a dense table.
Returned == Range(dyn)

\* C1 as claimed: in a returned feature set every mapping and compute_mapping
\* that is not SENSORS_NO_MAPPING is the number of a feature of the set.
C1_MappingsResolve ==
    pc = "done" =>
        \A f \in Returned :
            /\ f.mapping # SENSORS_NO_MAPPING =>
                   \E g \in Returned : g.number = f.mapping
            /\ f.compute_mapping # SENSORS_NO_MAPPING =>
                   \E g \in Returned : g.number = f.compute_mapping

\* C3 as claimed: when no two attributes decode to the same (category,
\* index, subtype), the returned set holds the feature of every attribute
\* that was given a slot, whatever the arrival order, in strictly ascending
\* number order.
C3_OrderIndependent ==
    (pc = "done" /\ \A a, b \in Typed : a # b => Triple(a) # Triple(b)) =>
        /\ Returned =
              {NewFeature(a, Placement(a, longBits).type,
                          Placement(a, longBits).slot) : a \in Placed}
        /\ \A j, k \in 1..Len(dyn) : j < k => dyn[j].number < dyn[k].number

\* The slot the code gave the k-th processed attribute, -1 when it gave none
\* or one outside the table.
SlotsInOrder ==
    [k \in 1..Len(order) |->
        IF order[k] = NameAttr THEN -1
        ELSE LET p == Placement(order[k], longBits)
             IN  IF p.kind = "slot" /\ InTable(p.slot) THEN p.slot ELSE -1]

FeatureTriple(f) ==
    LET type == TypeOfName(f.name)
    IN  <<CatBits(type), DecodeIndex(f.name, type, longBits), SubBits(type)>>

\* C4: no two stored (and no two returned) features share (category, index,
\* subtype) or a number, and the feature of a slot is at every moment the
\* one of the first-processed attribute that decodes to it.
C4_FirstWins ==
    LET slots == SlotsInOrder
        first(s) == CHOOSE k \in 1..Len(order) :
                        slots[k] = s /\ \A j \in 1..(k - 1) : slots[j] # s
    IN  /\ \A s, t \in DOMAIN features :
               s # t => /\ features[s].number # features[t].number
                        /\ FeatureTriple(features[s]) # FeatureTriple(features[t])
        /\ \A s \in DOMAIN features :
               /\ \E k \in 1..Len(order) : slots[k] = s
               /\ features[s] =
                      NewFeature(order[first(s)],
                                 TypeOfName(FeatureName(order[first(s)])), s)
        /\ pc = "done" =>
               /\ Returned = {features[s] : s \in DOMAIN features}
               /\ Len(dyn) = Cardinality(DOMAIN features)

\* Witness of C4: fan1_input then fan0_input arrived (both index 0), the
\* returned set holds fan1 alone.
C4_Witness ==
    /\ pc = "done"
    /\ order = <<Attr("fan", Num(0, 1), "_input"), Attr("fan", Num(0, 0), "_input")>>
    /\ Len(dyn) = 1
    /\ dyn[1].name = Attr("fan", Num(0, 1), "")

\* The scaling the claim gives a category.
CategoryScaling(n) ==
    CASE n.base = "in" -> 3
      [] n.base = "temp" -> 3
      [] n.base = "fan" -> 0
      [] n.base = "vid" -> 3
      [] n.base = "vrm" -> 1

\* C9 as claimed: the scaling of a stored feature is that of its category,
\* whatever its subtype.
C9_ScalingByCategory ==
    \A s \in DOMAIN features :
        features[s].scaling = CategoryScaling(features[s].name)

\* C9 as amended: the scaling is that of the category for main features and
\* computed sub-readings, and 0 for every sub-reading without compute
\* mapping (bit 0x10, the alarms).
C9_ScalingByCategoryAndKind ==
    /\ \A s \in DOMAIN features :
           features[s].scaling =
               IF NoComputeBit(TypeOfName(features[s].name)) # 0
               THEN 0
               ELSE CategoryScaling(features[s].name)
    /\ pc = "done" => Returned = {features[s] : s \in DOMAIN features}

\* Witness of C9: in0_alarm is stored with scaling 0 beside in0_min with 3.
C9_Witness ==
    /\ pc = "done"
    /\ \E f, g \in Returned :
           /\ f.name = Attr("in", Num(0, 0), "_alarm") /\ f.scaling = 0
           /\ g.name = Attr("in", Num(0, 0), "_min") /\ g.scaling = 3

\* C10 as claimed: the call never faults, every stored feature has a name
\* whose index lies in 0..15, and it sits at the slot of its own category,
\* that index and its subtype.
C10_OutOfRangeDropped ==
    /\ pc # "crashed"
    /\ \A s \in DOMAIN features :
           LET n == features[s].name
           IN  /\ NameIndexInRange(n)
               /\ s = SlotOf(TypeOfName(n), NameIndex(n))

---------------------------------------------------------------------------
(* Properties of the scan pass, checked under Spec *)

NStatic == Len(StaticEntries)

\* The slots of the table reserved for dynamic entries.
PlaceholderRange == (NStatic + 1)..(NStatic + N_PLACEHOLDER_ELEMENTS)

DynamicEntries(l) == {i \in (NStatic + 1)..Len(l) : l[i].prefix # NULL}

\* C2: at most N_PLACEHOLDER_ELEMENTS dynamic entries, the table never grows
\* and keeps its terminator and its static entries; a step that changes the
\* table changes only the slot of the current sentinel, which lies in the
\* placeholder range, and no entry with a prefix is changed or removed; with
\* the counter at N_PLACEHOLDER_ELEMENTS no feature set is synthesized.
C2_BudgetBoundsAppends ==
    /\ [](/\ total_dynamic <= N_PLACEHOLDER_ELEMENTS
          /\ Cardinality(DynamicEntries(list)) <= total_dynamic
          /\ Len(list) = Len(InitialList)
          /\ list[Len(list)] = NullEntry
          /\ \A i \in 1..NStatic : list[i] = StaticEntries[i])
    /\ [][/\ \A i \in 1..Len(list) :
                list[i].prefix # NULL => i <= Len(list') /\ list'[i] = list[i]
          /\ list' # list =>
                /\ EndOfList(list) \in PlaceholderRange
                /\ \A i \in 1..Len(list') : i # EndOfList(list) => list'[i] = list[i]
          /\ synth' # synth =>
                /\ total_dynamic < N_PLACEHOLDER_ELEMENTS
                /\ total_dynamic' = total_dynamic + 1
          /\ total_dynamic = N_PLACEHOLDER_ELEMENTS =>
                synth' = synth /\ list' = list]_vars

\* Witness of C2: the budget is used up by two appended entries and a third
\* device with an unknown prefix was registered without a synthesis.
C2_Witness ==
    /\ total_dynamic = N_PLACEHOLDER_ELEMENTS
    /\ Cardinality(DynamicEntries(list)) = N_PLACEHOLDER_ELEMENTS
    /\ Len(seen) = N_PLACEHOLDER_ELEMENTS + 1
    /\ Len(proc_chips) = N_PLACEHOLDER_ELEMENTS + 1
    /\ \A i \in 1..Len(list) :
           ~StrCaseEq(list[i].prefix, proc_chips[Len(proc_chips)].prefix)

\* The k-th device was handed to sensors_read_one_sysfs_chip, has a "name"
\* attribute that is no subclient's, has a "<bus>-<addr>" name with a bus
\* other than 9191, and its bus adapter's "name" attribute behaves as in B.
BusLookup(k, B) ==
    /\ seen[k].called
    /\ seen[k].dev.name # NULL
    /\ ~HasSuffix(seen[k].dev.name, SubclientSuffix)
    /\ seen[k].dev.devname.kind = "i2c"
    /\ seen[k].dev.devname.bus # ISA_MAGIC_BUS
    /\ seen[k].dev.busattr \in B

Registered(k) == \E j \in 1..Len(proc_chips) : proc_chips[j].busname = k

Synthesized(k) == \E j \in 1..Len(synth) : synth[j].pos = k

\* The pass ended at device k with the parse error, k left no trace.
AbortedAt(k) ==
    /\ seen[k].ret = -SENSORS_ERR_PARSE
    /\ k = Len(seen)
    /\ ret = -SENSORS_ERR_PARSE
    /\ spc = "returned"
    /\ ~Registered(k)
    /\ ~Synthesized(k)

\* C5 as claimed: an adapter "name" attribute that cannot be opened, or
\* whose read fails, aborts the pass with the parse error.
C5_UnreadableAborts ==
    \A k \in 1..Len(seen) : BusLookup(k, {"noopen", "readfail"}) => AbortedAt(k)

\* C5 as amended: the pass aborts when the attribute opens and its read
\* fails; when it cannot be opened the device is registered under the bus
\* number of its name and the pass goes on.
C5_ReadFailureAborts ==
    \A k \in 1..Len(seen) :
        /\ BusLookup(k, {"readfail"}) => AbortedAt(k)
        /\ BusLookup(k, {"noopen"}) =>
               /\ seen[k].ret = 0
               /\ \E j \in 1..Len(proc_chips) :
                      /\ proc_chips[j].busname = k
                      /\ proc_chips[j].bus = seen[k].dev.devname.bus

\* Witness of C5: a read failure at the third device, after a device whose
\* adapter attribute could not be opened was registered.
C5_Witness ==
    /\ Len(seen) = 3
    /\ BusLookup(2, {"noopen"})
    /\ BusLookup(3, {"readfail"})
    /\ Len(proc_chips) = 2
    /\ spc = "returned"

\* C6: a device that returns an error is the last one of the pass, the pass
\* returns its error, and the step that fails, like every step after an
\* error, leaves the registry, the table and the counter as they were.
C6_StopsAtFirstError ==
    /\ [](/\ ret # 0 => spc = "returned"
          /\ \A k \in 1..Len(seen) :
                 seen[k].ret # 0 =>
                     /\ k = Len(seen)
                     /\ ret = seen[k].ret
                     /\ \A j \in 1..Len(proc_chips) : proc_chips[j].busname < k
                     /\ \A j \in 1..Len(synth) : synth[j].pos < k)
    /\ [][(ret # 0 \/ ret' # 0) =>
              /\ proc_chips' = proc_chips
              /\ list' = list
              /\ total_dynamic' = total_dynamic
              /\ synth' = synth]_vars

\* Witness of C6: the third device fails after two devices were registered,
\* one of them with a synthesized feature set.
C6_Witness ==
    /\ Len(seen) = 3
    /\ seen[3].called
    /\ seen[3].ret = -SENSORS_ERR_PARSE
    /\ ret = -SENSORS_ERR_PARSE
    /\ spc = "returned"
    /\ Len(proc_chips) = 2
    /\ Len(synth) = 1

\* The positions of the devices that have a "name" value which, without its
\* newline, does not end in " subclient".
NamedChips ==
    {k \in 1..Len(seen) :
        /\ seen[k].dev.name # NULL
        /\ ~HasSuffix(ChopNewline(seen[k].dev.name),
                      <<" ", "s", "u", "b", "c", "l", "i", "e", "n", "t">>)}

\* C7: while no hard error was raised, the registry holds one entry per
\* device of NamedChips, in device order and under the device's prefix,
\* and only such devices cause a synthesis or use a budget slot.
C7_OneEntryPerChip ==
    ret = 0 =>
        /\ Len(proc_chips) = Cardinality(NamedChips)
        /\ \A j \in 1..Len(proc_chips) :
               /\ proc_chips[j].busname \in NamedChips
               /\ proc_chips[j].prefix =
                      ChopNewline(seen[proc_chips[j].busname].dev.name)
               /\ \A i \in 1..(j - 1) : proc_chips[i].busname < proc_chips[j].busname
        /\ \A j \in 1..Len(synth) : synth[j].pos \in NamedChips
        /\ total_dynamic = Len(synth)

\* Witness of C7: a pass of four devices returned 0: two with synthesized
\* sets, one unknown with the budget used up, one subclient.
C7_Witness ==
    /\ spc = "returned"
    /\ ret = 0
    /\ Len(seen) = 4
    /\ Len(synth) = 2
    /\ total_dynamic = N_PLACEHOLDER_ELEMENTS
    /\ Len(proc_chips) = 3
    /\ \E k \in 1..4 : seen[k].dev.name # NULL /\ HasSuffix(seen[k].dev.name, SubclientSuffix)
    /\ \A i \in 1..Len(list) :
           ~StrCaseEq(list[i].prefix, proc_chips[3].prefix)

\* C8 as claimed: no two calls of sensors_read_dynamic_chip are for the same
\* prefix (compared without case), and each call leaves an entry under its
\* prefix in the table.
C8_SynthesizedOncePerPrefix ==
    /\ \A i, j \in 1..Len(synth) :
           i < j => ~StrCaseEq(synth[i].prefix, synth[j].prefix)
    /\ \A j \in 1..Len(synth) :
           \E i \in 1..Len(list) : StrCaseEq(list[i].prefix, synth[j].prefix)

=============================================================================
